---------------------------- MODULE Spec2Model ----------------------------
(***************************************************************************)
(* ForgeKit npm package: the bridge between a caller and the external      *)
(* forgekit executable.  Two facades are modelled:                         *)
(*   js  the CommonJS class of src/unnamed/part_003 (child_process.spawn,  *)
(*       event callbacks, a promise settled by the first callback);        *)
(*   ts  the TypeScript class of src/unnamed/part_001 (await execa, then   *)
(*       the parsers extractPackagePath, parseSearchResults and            *)
(*       parseTemplateList).                                               *)
(* Texts the code inspects character by character (captured output, error  *)
(* messages) are sequences of one-character strings; argument tokens,      *)
(* which the code only pushes and passes on, are plain strings.            *)
(***************************************************************************)
EXTENDS Naturals, Integers, Sequences, FiniteSets

(***************************************************************************)
(* Literal texts of the source.                                            *)
(***************************************************************************)
\* part_003:40, the message of the ENOENT rejection
TxtCliNotFoundJs ==
  << "F", "o", "r", "g", "e", "K", "i", "t", " ", "C", "L", "I",
     " ", "n", "o", "t", " ", "f", "o", "u", "n", "d", ".", " ",
     "P", "l", "e", "a", "s", "e", " ", "i", "n", "s", "t", "a",
     "l", "l", " ", "F", "o", "r", "g", "e", "K", "i", "t", ":",
     " ", "c", "a", "r", "g", "o", " ", "i", "n", "s", "t", "a",
     "l", "l", " ", "f", "o", "r", "g", "e", "k", "i", "t" >>

\* part_003:50, template literal, text before ${code}
TxtFailedWithExitCode ==
  << "F", "o", "r", "g", "e", "K", "i", "t", " ", "c", "o", "m",
     "m", "a", "n", "d", " ", "f", "a", "i", "l", "e", "d", " ",
     "w", "i", "t", "h", " ", "e", "x", "i", "t", " ", "c", "o",
     "d", "e", " " >>

\* part_003:50, template literal, text between ${code} and ${stderr || stdout}
TxtColonSpace ==
  << ":", " " >>

\* part_001:247
TxtCliNotFoundTs ==
  << "F", "o", "r", "g", "e", "K", "i", "t", " ", "C", "L", "I",
     " ", "n", "o", "t", " ", "f", "o", "u", "n", "d", ".", " ",
     "P", "l", "e", "a", "s", "e", " ", "i", "n", "s", "t", "a",
     "l", "l", " ", "F", "o", "r", "g", "e", "K", "i", "t", " ",
     "f", "i", "r", "s", "t", ":", " ", "c", "a", "r", "g", "o",
     " ", "i", "n", "s", "t", "a", "l", "l", " ", "f", "o", "r",
     "g", "e", "k", "i", "t" >>

\* part_001:238, template literal, text before ${result.stderr || result.stdout}
TxtCommandFailedTs ==
  << "F", "o", "r", "g", "e", "K", "i", "t", " ", "c", "o", "m",
     "m", "a", "n", "d", " ", "f", "a", "i", "l", "e", "d", ":",
     " " >>

\* part_001:246, the argument of error.message.includes
TxtSpawnForgekitEnoent ==
  << "s", "p", "a", "w", "n", " ", "f", "o", "r", "g", "e", "k",
     "i", "t", " ", "E", "N", "O", "E", "N", "T" >>

\* part_001:262
TxtCouldNotExtract ==
  << "C", "o", "u", "l", "d", " ", "n", "o", "t", " ", "e", "x",
     "t", "r", "a", "c", "t", " ", "p", "a", "c", "k", "a", "g",
     "e", " ", "p", "a", "t", "h", " ", "f", "r", "o", "m", " ",
     "o", "u", "t", "p", "u", "t" >>

\* part_001:201, template literal, text before ${error}
TxtFailedToSearch ==
  << "F", "a", "i", "l", "e", "d", " ", "t", "o", " ", "s", "e",
     "a", "r", "c", "h", " ", "f", "o", "r", " ", "p", "a", "c",
     "k", "a", "g", "e", "s", ":", " " >>

\* part_001:217, template literal, text before ${error}
TxtFailedToList ==
  << "F", "a", "i", "l", "e", "d", " ", "t", "o", " ", "l", "i",
     "s", "t", " ", "t", "e", "m", "p", "l", "a", "t", "e", "s",
     ":", " " >>

\* String(error) of an Error object: its name, a colon and a space before the message
TxtErrorColon ==
  << "E", "r", "r", "o", "r", ":", " " >>

\* part_001:258, the literal part of the regular expression
TxtPackageCreatedAt ==
  << "P", "a", "c", "k", "a", "g", "e", " ", "c", "r", "e", "a",
     "t", "e", "d", " ", "a", "t", " " >>

\* part_003:146-147 and part_001:273-274, the argument of startsWith and replace
TxtBullet ==
  << "-", " " >>

\* part_003:146 and part_001:273, the argument of includes
TxtSeparator ==
  << " ", "-", " " >>

\* part_003:161 and part_001:291, template literal, text between ${match[1]} and ${match[2]}
TxtJoinDash ==
  << " ", "-", " " >>

\* bin/forgekit.js:17
TxtCliErrNotFound ==
  << "E", "r", "r", "o", "r", ":", " ", "F", "o", "r", "g", "e",
     "K", "i", "t", " ", "C", "L", "I", " ", "n", "o", "t", " ",
     "f", "o", "u", "n", "d", "." >>

\* bin/forgekit.js:18
TxtCliErrInstall ==
  << "P", "l", "e", "a", "s", "e", " ", "i", "n", "s", "t", "a",
     "l", "l", " ", "F", "o", "r", "g", "e", "K", "i", "t", " ",
     "f", "i", "r", "s", "t", ":" >>

\* bin/forgekit.js:19
TxtCliErrCargo ==
  << " ", " ", "c", "a", "r", "g", "o", " ", "i", "n", "s", "t",
     "a", "l", "l", " ", "f", "o", "r", "g", "e", "k", "i", "t" >>

\* bin/forgekit.js:21
TxtCliErrOverride ==
  << "O", "r", " ", "s", "e", "t", " ", "F", "O", "R", "G", "E",
     "K", "I", "T", "_", "P", "A", "T", "H", " ", "e", "n", "v",
     "i", "r", "o", "n", "m", "e", "n", "t", " ", "v", "a", "r",
     "i", "a", "b", "l", "e", " ", "t", "o", " ", "t", "h", "e",
     " ", "f", "o", "r", "g", "e", "k", "i", "t", " ", "b", "i",
     "n", "a", "r", "y", " ", "l", "o", "c", "a", "t", "i", "o",
     "n", "." >>

\* bin/forgekit.js:23, the first argument of console.error
TxtCliErrRunning ==
  << "E", "r", "r", "o", "r", " ", "r", "u", "n", "n", "i", "n",
     "g", " ", "f", "o", "r", "g", "e", "k", "i", "t", ":" >>

(***************************************************************************)
(* Texts the environment supplies: what the tool prints, what a failed     *)
(* launch reports.                                                         *)
(***************************************************************************)
\* the message of a launch error other than ENOENT
TxtSpawnForgekitEacces ==
  << "s", "p", "a", "w", "n", " ", "f", "o", "r", "g", "e", "k",
     "i", "t", " ", "E", "A", "C", "C", "E", "S" >>

\* a diagnostic the tool writes to its standard error
TxtBoom ==
  << "b", "o", "o", "m" >>

\* a package path the tool reports
TxtPathToken ==
  << "/", "t", "m", "p", "/", "x", ".", "m", "o", "x" >>

\* a package name
TxtFoo ==
  << "f", "o", "o" >>

\* a package name
TxtBar ==
  << "b", "a", "r" >>

\* a template identifier
TxtCli ==
  << "c", "l", "i" >>

\* a description of a template
TxtDesc ==
  << "B", "a", "s", "i", "c", " ", "C", "L", "I", " ", "t", "e",
     "m", "p", "l", "a", "t", "e" >>

\* a description of a package
TxtExtra ==
  << "e", "x", "t", "r", "a", " ", "d", "e", "s", "c", "r", "i",
     "p", "t", "i", "o", "n" >>

\* a line that is neither a result nor a template
TxtStatusOk ==
  << "s", "t", "a", "t", "u", "s", ":", " ", "o", "k" >>

(***************************************************************************)
(* JavaScript string operations, as the code uses them.                    *)
(***************************************************************************)
\* \s of a regular expression and the characters String.prototype.trim removes
WhiteSpace ==
  {" ", "\n", "\t", "\r"}

\* \w of a regular expression: [A-Za-z0-9_]
WordChars ==
  {"a","b","c","d","e","f","g","h","i","j","k","l","m","n","o","p","q","r",
   "s","t","u","v","w","x","y","z","A","B","C","D","E","F","G","H","I","J",
   "K","L","M","N","O","P","Q","R","S","T","U","V","W","X","Y","Z","0","1",
   "2","3","4","5","6","7","8","9","_"}

\* the line terminators, which . of a regular expression does not match
LineTerminators ==
  {"\n", "\r"}

\* String(code) of a small non-negative exit status
DigitChars ==
  <<"0", "1", "2", "3", "4", "5", "6", "7", "8", "9">>

NumberToString(n) ==
  IF n < 10 THEN <<DigitChars[n + 1]>>
  ELSE <<DigitChars[(n \div 10) + 1], DigitChars[(n % 10) + 1]>>

\* s.startsWith(p)
StartsWith(s, p) ==
  /\ Len(p) <= Len(s)
  /\ SubSeq(s, 1, Len(p)) = p

\* s.indexOf(p), counted from 1; 0 when p does not occur
IndexOf(s, p) ==
  LET hits == {i \in 1..(Len(s) + 1) : /\ i + Len(p) - 1 <= Len(s)
                                       /\ SubSeq(s, i, i + Len(p) - 1) = p}
  IN  IF hits = {} THEN 0 ELSE CHOOSE i \in hits : \A j \in hits : i <= j

\* s.includes(p)
Includes(s, p) ==
  IndexOf(s, p) # 0

\* s.replace(p, r) with a string pattern: the first occurrence only
ReplaceFirst(s, p, r) ==
  LET i == IndexOf(s, p)
  IN  IF i = 0 THEN s
      ELSE SubSeq(s, 1, i - 1) \o r \o SubSeq(s, i + Len(p), Len(s))

\* the length of the longest prefix of s whose characters are all in set
SpanLen(s, set) ==
  LET stops == {i \in 1..Len(s) : s[i] \notin set}
  IN  IF stops = {} THEN Len(s)
      ELSE (CHOOSE i \in stops : \A j \in stops : i <= j) - 1

\* the length of the longest suffix of s whose characters are all in set
SpanLenBack(s, set) ==
  LET stops == {i \in 1..Len(s) : s[i] \notin set}
  IN  IF stops = {} THEN Len(s)
      ELSE Len(s) - (CHOOSE i \in stops : \A j \in stops : i >= j)

\* s.trim()
Trim(s) ==
  LET a == SpanLen(s, WhiteSpace)
  IN  IF a = Len(s) THEN <<>>
      ELSE SubSeq(s, a + 1, Len(s) - SpanLenBack(s, WhiteSpace))

\* s.split('\n'): the pieces between the newlines, in order
RECURSIVE SplitLines(_)
SplitLines(s) ==
  LET i == IndexOf(s, <<"\n">>)
  IN  IF i = 0 THEN <<s>>
      ELSE <<SubSeq(s, 1, i - 1)>> \o SplitLines(SubSeq(s, i + 1, Len(s)))

\* a || b on strings: the empty string is falsy
OrElse(a, b) ==
  IF a # <<>> THEN a ELSE b

(***************************************************************************)
(* Output parsing.                                                         *)
(***************************************************************************)
\* the predicate of lines.filter in search, the condition of the loop in
\* parseSearchResults
IsSearchLine(line) ==
  StartsWith(Trim(line), TxtBullet) \/ Includes(line, TxtSeparator)

\* the function of lines.map in search, the argument of packages.push
StripBullet(line) ==
  ReplaceFirst(Trim(line), TxtBullet, <<>>)

\* search: result.stdout.split, filter, map
JsParseSearch(stdout) ==
  LET kept == SelectSeq(SplitLines(stdout), IsSearchLine)
  IN  [i \in 1..Len(kept) |-> StripBullet(kept[i])]

\* parseSearchResults: the loop over the lines
RECURSIVE ParseSearchLoop(_, _)
ParseSearchLoop(lines, packages) ==
  IF lines = <<>> THEN packages
  ELSE ParseSearchLoop(Tail(lines),
         IF IsSearchLine(Head(lines))
         THEN Append(packages, StripBullet(Head(lines)))
         ELSE packages)

parseSearchResults(output) ==
  ParseSearchLoop(SplitLines(output), <<>>)

\* line.match(/^\s*(\w+)\s+-\s+(.+)$/): ok, and the two groups
TemplateMatch(line) ==
  LET a    == SpanLen(line, WhiteSpace)
      r1   == SubSeq(line, a + 1, Len(line))
      w    == SpanLen(r1, WordChars)
      r2   == SubSeq(r1, w + 1, Len(r1))
      b    == SpanLen(r2, WhiteSpace)
      r3   == SubSeq(r2, b + 1, Len(r2))
      dash == r3 # <<>> /\ r3[1] = "-"
      r4   == SubSeq(r3, 2, Len(r3))
      c    == SpanLen(r4, WhiteSpace)
      rest == SubSeq(r4, c + 1, Len(r4))
      \* \s+ is greedy and gives one character back to .+ when nothing follows
      g2   == IF rest # <<>> THEN rest ELSE SubSeq(r4, c, c)
      ok   == /\ w >= 1
              /\ b >= 1
              /\ dash
              /\ c >= 1
              /\ rest # <<>> \/ c >= 2
              /\ \A i \in 1..Len(g2) : g2[i] \notin LineTerminators
  IN  IF ok THEN [ok |-> TRUE, g1 |-> SubSeq(r1, 1, w), g2 |-> g2]
      ELSE [ok |-> FALSE, g1 |-> <<>>, g2 |-> <<>>]

\* the entry with the white space of the line kept: one more space before
\* the dash than the template literal writes
TemplateEntry_Wide(m) ==
  m.g1 \o <<" ">> \o TxtJoinDash \o m.g2

\* `${match[1]} - ${match[2]}`
TemplateEntry(m) ==
  m.g1 \o TxtJoinDash \o m.g2

IsTemplateLine(line) ==
  TemplateMatch(line).ok

\* templates: result.stdout.split, map to the entry or null, filter(Boolean)
JsParseTemplates(stdout) ==
  LET kept == SelectSeq(SplitLines(stdout), IsTemplateLine)
  IN  [i \in 1..Len(kept) |-> TemplateEntry(TemplateMatch(kept[i]))]

\* parseTemplateList: the loop over the lines
RECURSIVE ParseTemplateLoop(_, _)
ParseTemplateLoop(lines, templates) ==
  IF lines = <<>> THEN templates
  ELSE ParseTemplateLoop(Tail(lines),
         IF TemplateMatch(Head(lines)).ok
         THEN Append(templates, TemplateEntry(TemplateMatch(Head(lines))))
         ELSE templates)

parseTemplateList(output) ==
  ParseTemplateLoop(SplitLines(output), <<>>)

\* output.match(/Package created at ([^\s]+)/): ok, and the group
PackagePathMatch(output) ==
  LET n    == Len(TxtPackageCreatedAt)
      hits == {i \in 1..Len(output) :
                 /\ i + n <= Len(output)
                 /\ SubSeq(output, i, i + n - 1) = TxtPackageCreatedAt
                 /\ output[i + n] \notin WhiteSpace}
      i0   == CHOOSE i \in hits : \A j \in hits : i <= j
      tail == SubSeq(output, i0 + n, Len(output))
      ends == {k \in 1..Len(tail) : tail[k] \in WhiteSpace}
      len  == IF ends = {} THEN Len(tail)
              ELSE (CHOOSE k \in ends : \A j \in ends : k <= j) - 1
  IN  IF hits = {} THEN [ok |-> FALSE, g1 |-> <<>>]
      ELSE [ok |-> TRUE, g1 |-> SubSeq(tail, 1, len)]

(***************************************************************************)
(* Values: what a promise is settled with.                                 *)
(***************************************************************************)
\* an Error object: its message and its code property ("" when it has none)
MakeError(message, code) ==
  [message |-> message, code |-> code]

NoError ==
  MakeError(<<>>, "")

\* kind: "none" (nothing yet), "raw" ({stdout, stderr, code} of execute,
\* {stdout, stderr} of executeForgeKit), "path" (a string), "list" (an array
\* of strings), "void" (undefined)
MakeValue(kind, stdout, stderr, code, path, list) ==
  [kind |-> kind, stdout |-> stdout, stderr |-> stderr, code |-> code,
   path |-> path, list |-> list]

NoValue ==
  MakeValue("none", <<>>, <<>>, 0, <<>>, <<>>)

RawValue(stdout, stderr, code) ==
  MakeValue("raw", stdout, stderr, code, <<>>, <<>>)

PathValue(path) ==
  MakeValue("path", <<>>, <<>>, 0, path, <<>>)

ListValue(list) ==
  MakeValue("list", <<>>, <<>>, 0, <<>>, list)

VoidValue ==
  MakeValue("void", <<>>, <<>>, 0, <<>>, <<>>)

Pending ==
  [state |-> "pending", value |-> NoValue, error |-> NoError]

Fulfilled(value) ==
  [state |-> "fulfilled", value |-> value, error |-> NoError]

Rejected(error) ==
  [state |-> "rejected", value |-> NoValue, error |-> error]

\* a promise that takes every settlement, the last one winning
Settle_LastWins(promise, outcome) ==
  outcome

\* resolve and reject of a promise: only the first call settles it
Settle(promise, outcome) ==
  IF promise.state = "pending" THEN outcome ELSE promise

(***************************************************************************)
(* Building the argument vector.                                           *)
(***************************************************************************)
\* if (options.key): the key is there and its value is not the empty string
Truthy(options, key) ==
  key \in DOMAIN options /\ options[key] # ""

\* if (options.key) args.push(flag, options.key)
PushIf(args, options, key, flag) ==
  IF Truthy(options, key) THEN args \o <<flag, options[key]>> ELSE args

\* new with the template flag pushed before the path flag and the name
JsNewArgs_FlagFirst(name, options) ==
  PushIf(PushIf(<<"new">>, options, "template", "--template") \o <<name>>,
         options, "path", "--path")

JsNewArgs(name, options) ==
  PushIf(PushIf(<<"new", name>>, options, "path", "--path"),
         options, "template", "--template")

JsBuildArgs(options) ==
  PushIf(<<"build">>, options, "path", "--path")

JsPackageArgs(options) ==
  PushIf(<<"package">>, options, "path", "--path")

\* build-package spelt as the method is
JsBuildPackageArgs_MethodName(options) ==
  PushIf(<<"buildPackage">>, options, "path", "--path")

JsBuildPackageArgs(options) ==
  PushIf(<<"build-package">>, options, "path", "--path")

JsRunArgs(options) ==
  PushIf(<<"run">>, options, "path", "--path")

\* add with the path flag pushed before the version flag
JsAddArgs_PathFirst(packageName, options) ==
  PushIf(PushIf(<<"add", packageName>>, options, "path", "--path"),
         options, "version", "--version")

JsAddArgs(packageName, options) ==
  PushIf(PushIf(<<"add", packageName>>, options, "version", "--version"),
         options, "path", "--path")

\* remove that also looks at options.version
JsRemoveArgs_Version(packageName, options) ==
  PushIf(PushIf(<<"remove", packageName>>, options, "path", "--path"),
         options, "version", "--version")

JsRemoveArgs(packageName, options) ==
  PushIf(<<"remove", packageName>>, options, "path", "--path")

JsUpdateArgs(options) ==
  PushIf(<<"update">>, options, "path", "--path")

JsSearchArgs(query) ==
  <<"search", query>>

JsTemplatesArgs ==
  <<"templates">>

TsNewArgs(name, options) ==
  PushIf(PushIf(<<"new", name>>, options, "path", "--path"),
         options, "template", "--template")

TsBuildArgs(options) ==
  PushIf(<<"build">>, options, "path", "--path")

TsPackageArgs(options) ==
  PushIf(<<"package">>, options, "path", "--path")

TsBuildPackageArgs(options) ==
  PushIf(<<"build-package">>, options, "path", "--path")

TsRunArgs(options) ==
  PushIf(<<"run">>, options, "path", "--path")

TsAddArgs(packageName, options) ==
  PushIf(PushIf(<<"add", packageName>>, options, "version", "--version"),
         options, "path", "--path")

TsRemoveArgs(packageName, options) ==
  PushIf(<<"remove", packageName>>, options, "path", "--path")

TsUpdateArgs(options) ==
  PushIf(<<"update">>, options, "path", "--path")

TsSearchArgs(query) ==
  <<"search", query>>

TsTemplatesArgs ==
  <<"templates">>

(***************************************************************************)
(* Bounds and inputs.                                                      *)
(***************************************************************************)
\* data events delivered per stream of one process
MaxChunks == 2

\* the largest exit status the tool reports
MaxExitCode == 2

CallIds ==
  {"c1", "c2"}

\* the calls the sequential specification uses
SoloCalls ==
  {"c1"}

ExitCodes ==
  0..MaxExitCode

\* the codes of launch errors
LaunchCodes ==
  {"ENOENT", "EACCES"}

LaunchMessage(code) ==
  IF code = "ENOENT" THEN TxtSpawnForgekitEnoent ELSE TxtSpawnForgekitEacces

\* project names, dependency names, queries
Names ==
  {"myapp"}

OptionKeys ==
  {"path", "template", "version"}

OptionValues(key) ==
  CASE key = "path"     -> {"", "./app"}
    [] key = "template" -> {"", "cli"}
    [] key = "version"  -> {"", "1.0"}

\* pieces of output: at most this many make an input of a parser
MaxPieces == 4

\* data events delivered in all to the calls that run concurrently
MaxConcurrentChunks == 2

\* every option bag: any subset of the keys, each with an empty or a
\* non-empty value
OptionBags ==
  UNION { {f \in [K -> {"", "./app", "cli", "1.0"}] :
             \A k \in K : f[k] \in OptionValues(k)} : K \in SUBSET OptionKeys }

NoOptions ==
  [k \in {} |-> ""]

\* the bags of the calls whose process is followed to its end
FewBags ==
  { NoOptions, [k \in OptionKeys |-> CHOOSE v \in OptionValues(k) : v # ""] }

\* what the tool writes to its standard output in one piece
StdoutChunks ==
  { TxtPackageCreatedAt \o TxtPathToken \o <<"\n">>,
    TxtPackageCreatedAt \o <<"\n">>,
    TxtCli \o <<" ", " ">> \o TxtBullet \o TxtDesc \o <<"\n">> }

\* what the tool writes to its standard error in one piece
StderrChunks ==
  { TxtBoom, TxtSpawnForgekitEnoent }

\* the texts made of at most n pieces
RECURSIVE TextsOf(_, _)
TextsOf(chunks, n) ==
  IF n = 0 THEN {<<>>}
  ELSE LET shorter == TextsOf(chunks, n - 1)
       IN  shorter \cup {t \o ch : t \in shorter, ch \in chunks}

(***************************************************************************)
(* State.                                                                  *)
(***************************************************************************)
VARIABLES
  thisOptions,   \* this.options of the facade instance
  calls,         \* per call: its inputs, its process, its buffers, its promises
  parsing,       \* a parser applied on its own: its input, and what it returned
  cli            \* the command-line script (bin/forgekit.js) run as a process

vars == <<thisOptions, calls, parsing, cli>>

\* the constructor: defaults, then the caller's options spread over them
Constructor(envForgekitPath, ctorOptions) ==
  [cwd |-> IF "cwd" \in DOMAIN ctorOptions THEN ctorOptions["cwd"] ELSE "/work",
   forgekitPath |->
     IF "forgekitPath" \in DOMAIN ctorOptions THEN ctorOptions["forgekitPath"]
     ELSE IF envForgekitPath # "" THEN envForgekitPath ELSE "forgekit"]

\* a call that has not been made
IdleCall ==
  [started |-> FALSE, impl |-> "", op |-> "", name |-> "", options |-> NoOptions,
   spawned |-> <<>>, stdout |-> <<>>, stderr |-> <<>>,
   errored |-> FALSE, closed |-> FALSE,
   promise |-> Pending, result |-> Pending,
   first |-> "none", errorCode |-> "", exitCode |-> 0,
   outLog |-> <<>>, errLog |-> <<>>]

\* no parser applied on its own
NotParsing ==
  [input |-> <<>>, by |-> "none", kind |-> "none", items |-> <<>>]

\* the command-line script not run: the process is a host of the library
NoCli ==
  [phase |-> "none", argv |-> <<>>, env |-> "", cwd |-> "", spawned |-> <<>>,
   out |-> <<>>, err |-> <<>>, event |-> "none", errorCode |-> "",
   closeCode |-> <<>>, exitStatus |-> <<>>]

Init ==
  /\ thisOptions \in
       { Constructor(env, ctor) :
           env \in {"", "/opt/forgekit"},
           ctor \in {NoOptions, [k \in {"forgekitPath"} |-> "forgekit-test"]} }
  /\ calls = [c \in CallIds |-> IdleCall]
  /\ parsing = NotParsing
  /\ cli = NoCli

(***************************************************************************)
(* The js facade (part_003).                                               *)
(***************************************************************************)
\* execute, up to the return of the promise: spawn, the two empty buffers,
\* the four handlers registered
JsExecute(c, op, name, options, args) ==
  /\ calls' = [calls EXCEPT ![c] =
       [@ EXCEPT !.started = TRUE, !.impl = "js", !.op = op, !.name = name,
                 !.options = options,
                 !.spawned = Append(@, [file  |-> thisOptions.forgekitPath,
                                        args  |-> args,
                                        cwd   |-> thisOptions.cwd,
                                        stdio |-> <<"pipe", "pipe", "pipe">>]),
                 !.stdout = <<>>, !.stderr = <<>>]]
  /\ UNCHANGED <<thisOptions, parsing, cli>>

JsNew(c, bags) ==
  /\ ~calls[c].started
  /\ \E name \in Names, options \in bags :
       JsExecute(c, "new", name, options, JsNewArgs(name, options))

JsBuild(c, bags) ==
  /\ ~calls[c].started
  /\ \E options \in bags :
       JsExecute(c, "build", "", options, JsBuildArgs(options))

JsPackage(c, bags) ==
  /\ ~calls[c].started
  /\ \E options \in bags :
       JsExecute(c, "package", "", options, JsPackageArgs(options))

JsBuildPackage(c, bags) ==
  /\ ~calls[c].started
  /\ \E options \in bags :
       JsExecute(c, "buildPackage", "", options, JsBuildPackageArgs(options))

JsRun(c, bags) ==
  /\ ~calls[c].started
  /\ \E options \in bags :
       JsExecute(c, "run", "", options, JsRunArgs(options))

JsAdd(c, bags) ==
  /\ ~calls[c].started
  /\ \E packageName \in Names, options \in bags :
       JsExecute(c, "add", packageName, options, JsAddArgs(packageName, options))

JsRemove(c, bags) ==
  /\ ~calls[c].started
  /\ \E packageName \in Names, options \in bags :
       JsExecute(c, "remove", packageName, options, JsRemoveArgs(packageName, options))

JsUpdate(c, bags) ==
  /\ ~calls[c].started
  /\ \E options \in bags :
       JsExecute(c, "update", "", options, JsUpdateArgs(options))

\* search and templates declare no options parameter: a bag passed to them
\* is an extra argument, which JavaScript drops
JsSearch(c, bags) ==
  /\ ~calls[c].started
  /\ \E query \in Names, options \in bags :
       JsExecute(c, "search", query, options, JsSearchArgs(query))

JsTemplates(c, bags) ==
  /\ ~calls[c].started
  /\ \E options \in bags :
       JsExecute(c, "templates", "", options, JsTemplatesArgs)

\* package and buildPackage made to extract the path, as the ts facade does
JsThen_ExtractPath(op, promise) ==
  IF promise.state # "fulfilled" THEN promise
  ELSE CASE op = "search"    -> Fulfilled(ListValue(JsParseSearch(promise.value.stdout)))
         [] op = "templates" -> Fulfilled(ListValue(JsParseTemplates(promise.value.stdout)))
         [] op \in {"package", "buildPackage"} ->
              Fulfilled(PathValue(PackagePathMatch(promise.value.stdout).g1))
         [] OTHER            -> promise

\* what the method does with the promise of execute: search and templates
\* await it and parse result.stdout, the others return it
JsThen(op, promise) ==
  IF promise.state # "fulfilled" THEN promise
  ELSE CASE op = "search"    -> Fulfilled(ListValue(JsParseSearch(promise.value.stdout)))
         [] op = "templates" -> Fulfilled(ListValue(JsParseTemplates(promise.value.stdout)))
         [] OTHER            -> promise

\* the data handler made to write to one buffer that every call shares
JsStdoutData_Shared(c) ==
  /\ calls[c].started /\ calls[c].impl = "js"
  /\ ~calls[c].closed
  /\ Len(calls[c].outLog) < MaxChunks
  /\ \E data \in StdoutChunks : calls' = [d \in CallIds |->
       IF d = c
       THEN [calls[d] EXCEPT !.stdout = @ \o data, !.outLog = Append(@, data)]
       ELSE [calls[d] EXCEPT !.stdout = @ \o data]]
  /\ UNCHANGED <<thisOptions, parsing, cli>>

\* child.stdout.on('data')
JsStdoutData(c) ==
  /\ calls[c].started /\ calls[c].impl = "js"
  /\ ~calls[c].closed
  /\ Len(calls[c].outLog) < MaxChunks
  /\ \E data \in StdoutChunks : calls' = [calls EXCEPT ![c] =
       [@ EXCEPT !.stdout = @ \o data, !.outLog = Append(@, data)]]
  /\ UNCHANGED <<thisOptions, parsing, cli>>

\* the handler of the standard error made to append to the other buffer
JsStderrData_IntoStdout(c) ==
  /\ calls[c].started /\ calls[c].impl = "js"
  /\ ~calls[c].closed
  /\ Len(calls[c].errLog) < MaxChunks
  /\ \E data \in StderrChunks : calls' = [calls EXCEPT ![c] =
       [@ EXCEPT !.stdout = @ \o data, !.errLog = Append(@, data)]]
  /\ UNCHANGED <<thisOptions, parsing, cli>>

\* child.stderr.on('data')
JsStderrData(c) ==
  /\ calls[c].started /\ calls[c].impl = "js"
  /\ ~calls[c].closed
  /\ Len(calls[c].errLog) < MaxChunks
  /\ \E data \in StderrChunks : calls' = [calls EXCEPT ![c] =
       [@ EXCEPT !.stderr = @ \o data, !.errLog = Append(@, data)]]
  /\ UNCHANGED <<thisOptions, parsing, cli>>

\* the error handler made to name the override variable in its message
JsErrorOutcome_NamesOverride(err) ==
  IF err.code = "ENOENT"
  THEN Rejected(MakeError(TxtCliNotFoundJs \o <<" ">> \o TxtCliErrOverride, ""))
  ELSE Rejected(err)

\* the rejection of child.on('error')
JsErrorOutcome(err) ==
  IF err.code = "ENOENT" THEN Rejected(MakeError(TxtCliNotFoundJs, ""))
  ELSE Rejected(err)

\* the error handler made to launch the process a second time
JsOnError_Retry(c) ==
  /\ calls[c].started /\ calls[c].impl = "js"
  /\ ~calls[c].errored
  /\ \E code \in LaunchCodes :
       LET err     == MakeError(LaunchMessage(code), code)
           promise == Settle(calls[c].promise, JsErrorOutcome(err))
       IN  calls' = [calls EXCEPT ![c] =
             [@ EXCEPT !.errored = TRUE, !.errorCode = err.code,
                       !.first = IF @ = "none" THEN "error" ELSE @,
                       !.spawned = Append(@, @[1]),
                       !.promise = promise,
                       !.result = JsThen(calls[c].op, promise)]]
  /\ UNCHANGED <<thisOptions, parsing, cli>>

\* child.on('error')
JsOnError(c) ==
  /\ calls[c].started /\ calls[c].impl = "js"
  /\ ~calls[c].errored
  /\ \E code \in LaunchCodes :
       LET err     == MakeError(LaunchMessage(code), code)
           promise == Settle(calls[c].promise, JsErrorOutcome(err))
       IN  calls' = [calls EXCEPT ![c] =
             [@ EXCEPT !.errored = TRUE, !.errorCode = err.code,
                       !.first = IF @ = "none" THEN "error" ELSE @,
                       !.promise = promise,
                       !.result = JsThen(calls[c].op, promise)]]
  /\ UNCHANGED <<thisOptions, parsing, cli>>

\* the close handler made to resolve with the record whatever the code
JsCloseOutcome_AlwaysResolve(stdout, stderr, code) ==
  Fulfilled(RawValue(stdout, stderr, code))

\* the settlement of child.on('close')
JsCloseOutcome(stdout, stderr, code) ==
  IF code = 0 THEN Fulfilled(RawValue(stdout, stderr, code))
  ELSE Rejected(MakeError(TxtFailedWithExitCode \o NumberToString(code)
                            \o TxtColonSpace \o OrElse(stderr, stdout), ""))

\* child.on('close')
JsOnClose(c) ==
  /\ calls[c].started /\ calls[c].impl = "js"
  /\ ~calls[c].closed
  /\ \E code \in ExitCodes :
       LET promise == Settle(calls[c].promise,
                             JsCloseOutcome(calls[c].stdout, calls[c].stderr, code))
       IN  calls' = [calls EXCEPT ![c] =
             [@ EXCEPT !.closed = TRUE, !.exitCode = code,
                       !.first = IF @ = "none" THEN "close" ELSE @,
                       !.promise = promise,
                       !.result = JsThen(calls[c].op, promise)]]
  /\ UNCHANGED <<thisOptions, parsing, cli>>

(***************************************************************************)
(* The ts facade (part_001).                                               *)
(***************************************************************************)
\* What await execa('forgekit', args, {cwd, reject: false}) can produce.  The
\* library is not part of the repository: it either returns a result object
\* (with reject: false also for a process that failed: the exit status of a
\* process that was never launched is undefined, written -1 here) or throws.
ExecaOutcomes ==
  { [kind |-> "result", launch |-> "", exitCode |-> code,
     stdout |-> out, stderr |-> err, message |-> <<>>] :
       code \in ExitCodes,
       out \in TextsOf(StdoutChunks, MaxChunks),
       err \in TextsOf(StderrChunks, 1) }
  \cup
  { [kind |-> kind, launch |-> code, exitCode |-> -1,
     stdout |-> <<>>, stderr |-> <<>>, message |-> LaunchMessage(code)] :
       kind \in {"result", "throw"}, code \in LaunchCodes }

\* a method, up to its await of executeForgeKit, and executeForgeKit up to
\* its await of execa
TsCall(c, op, name, options, args) ==
  /\ calls' = [calls EXCEPT ![c] =
       [@ EXCEPT !.started = TRUE, !.impl = "ts", !.op = op, !.name = name,
                 !.options = options,
                 !.spawned = Append(@, [file  |-> "forgekit",
                                        args  |-> args,
                                        cwd   |-> thisOptions.cwd,
                                        stdio |-> <<>>])]]
  /\ UNCHANGED <<thisOptions, parsing, cli>>

TsNew(c, bags) ==
  /\ ~calls[c].started
  /\ \E name \in Names, options \in bags :
       TsCall(c, "new", name, options, TsNewArgs(name, options))

TsBuild(c, bags) ==
  /\ ~calls[c].started
  /\ \E options \in bags :
       TsCall(c, "build", "", options, TsBuildArgs(options))

TsPackage(c, bags) ==
  /\ ~calls[c].started
  /\ \E options \in bags :
       TsCall(c, "package", "", options, TsPackageArgs(options))

TsBuildPackage(c, bags) ==
  /\ ~calls[c].started
  /\ \E options \in bags :
       TsCall(c, "buildPackage", "", options, TsBuildPackageArgs(options))

TsRun(c, bags) ==
  /\ ~calls[c].started
  /\ \E options \in bags :
       TsCall(c, "run", "", options, TsRunArgs(options))

TsAdd(c, bags) ==
  /\ ~calls[c].started
  /\ \E packageName \in Names, options \in bags :
       TsCall(c, "add", packageName, options, TsAddArgs(packageName, options))

TsRemove(c, bags) ==
  /\ ~calls[c].started
  /\ \E packageName \in Names, options \in bags :
       TsCall(c, "remove", packageName, options, TsRemoveArgs(packageName, options))

TsUpdate(c, bags) ==
  /\ ~calls[c].started
  /\ \E options \in bags :
       TsCall(c, "update", "", options, TsUpdateArgs(options))

TsSearch(c, bags) ==
  /\ ~calls[c].started
  /\ \E query \in Names, options \in bags :
       TsCall(c, "search", query, options, TsSearchArgs(query))

TsTemplates(c, bags) ==
  /\ ~calls[c].started
  /\ \E options \in bags :
       TsCall(c, "templates", "", options, TsTemplatesArgs)

\* the try block of executeForgeKit, from the outcome of execa on
ExecuteForgeKitTry(outcome) ==
  IF outcome.kind = "throw" THEN Rejected(MakeError(outcome.message, outcome.launch))
  ELSE IF outcome.exitCode # 0
       THEN Rejected(MakeError(TxtCommandFailedTs
                                 \o OrElse(outcome.stderr, outcome.stdout), ""))
       ELSE Fulfilled(RawValue(outcome.stdout, outcome.stderr, 0))

\* the catch block of executeForgeKit
ExecuteForgeKitCatch(promise) ==
  IF promise.state # "rejected" THEN promise
  ELSE IF Includes(promise.error.message, TxtSpawnForgekitEnoent)
       THEN Rejected(MakeError(TxtCliNotFoundTs, ""))
       ELSE promise

executeForgeKit(outcome) ==
  ExecuteForgeKitCatch(ExecuteForgeKitTry(outcome))

\* extractPackagePath that returns the empty group instead of throwing
extractPackagePath_NoThrow(output) ==
  Fulfilled(PathValue(PackagePathMatch(output).g1))

\* extractPackagePath: the path, or the thrown error
extractPackagePath(output) ==
  LET match == PackagePathMatch(output)
  IN  IF match.ok THEN Fulfilled(PathValue(match.g1))
      ELSE Rejected(MakeError(TxtCouldNotExtract, ""))

\* `${prefix}${error}` of the catch blocks of search and templates
WrapError(prefix, error) ==
  MakeError(prefix \o TxtErrorColon \o error.message, "")

\* what the method does after its await of executeForgeKit
TsThen(op, promise) ==
  CASE op \in {"package", "buildPackage"} ->
         IF promise.state = "fulfilled"
         THEN extractPackagePath(promise.value.stdout)
         ELSE promise
    [] op = "search" ->
         IF promise.state = "fulfilled"
         THEN Fulfilled(ListValue(parseSearchResults(promise.value.stdout)))
         ELSE Rejected(WrapError(TxtFailedToSearch, promise.error))
    [] op = "templates" ->
         IF promise.state = "fulfilled"
         THEN Fulfilled(ListValue(parseTemplateList(promise.value.stdout)))
         ELSE Rejected(WrapError(TxtFailedToList, promise.error))
    [] OTHER ->
         IF promise.state = "fulfilled" THEN Fulfilled(VoidValue) ELSE promise

\* execa settles: the rest of executeForgeKit, then the rest of the method
TsExecaSettles(c) ==
  /\ calls[c].started /\ calls[c].impl = "ts"
  /\ calls[c].promise.state = "pending"
  /\ \E outcome \in ExecaOutcomes :
       LET promise == executeForgeKit(outcome)
       IN  calls' = [calls EXCEPT ![c] =
             [@ EXCEPT !.stdout = outcome.stdout, !.stderr = outcome.stderr,
                       !.errored = outcome.launch # "",
                       !.closed = outcome.launch = "",
                       !.errorCode = outcome.launch,
                       !.exitCode = outcome.exitCode,
                       !.first = IF outcome.launch # "" THEN "error" ELSE "close",
                       !.promise = promise,
                       !.result = TsThen(calls[c].op, promise)]]
  /\ UNCHANGED <<thisOptions, parsing, cli>>

(***************************************************************************)
(* The sequential specification: one call, any method of either facade,    *)
(* any behaviour of the process.                                           *)
(***************************************************************************)
Next ==
  \E c \in SoloCalls :
    \/ JsNew(c, FewBags)
    \/ JsBuild(c, FewBags)
    \/ JsPackage(c, FewBags)
    \/ JsBuildPackage(c, FewBags)
    \/ JsRun(c, FewBags)
    \/ JsAdd(c, FewBags)
    \/ JsRemove(c, FewBags)
    \/ JsUpdate(c, FewBags)
    \/ JsSearch(c, FewBags)
    \/ JsTemplates(c, FewBags)
    \/ TsNew(c, FewBags)
    \/ TsBuild(c, FewBags)
    \/ TsPackage(c, FewBags)
    \/ TsBuildPackage(c, FewBags)
    \/ TsRun(c, FewBags)
    \/ TsAdd(c, FewBags)
    \/ TsRemove(c, FewBags)
    \/ TsUpdate(c, FewBags)
    \/ TsSearch(c, FewBags)
    \/ TsTemplates(c, FewBags)
    \/ JsStdoutData(c)
    \/ JsStderrData(c)
    \/ JsOnError(c)
    \/ JsOnClose(c)
    \/ TsExecaSettles(c)

Spec ==
  Init /\ [][Next]_vars

(***************************************************************************)
(* The command builder alone: one call, any method, every option bag, up   *)
(* to the launch of the process.                                           *)
(***************************************************************************)
NextBuild ==
  \E c \in SoloCalls :
    \/ JsNew(c, OptionBags)
    \/ JsBuild(c, OptionBags)
    \/ JsPackage(c, OptionBags)
    \/ JsBuildPackage(c, OptionBags)
    \/ JsRun(c, OptionBags)
    \/ JsAdd(c, OptionBags)
    \/ JsRemove(c, OptionBags)
    \/ JsUpdate(c, OptionBags)
    \/ JsSearch(c, OptionBags)
    \/ JsTemplates(c, OptionBags)
    \/ TsNew(c, OptionBags)
    \/ TsBuild(c, OptionBags)
    \/ TsPackage(c, OptionBags)
    \/ TsBuildPackage(c, OptionBags)
    \/ TsRun(c, OptionBags)
    \/ TsAdd(c, OptionBags)
    \/ TsRemove(c, OptionBags)
    \/ TsUpdate(c, OptionBags)
    \/ TsSearch(c, OptionBags)
    \/ TsTemplates(c, OptionBags)

SpecBuild ==
  Init /\ [][NextBuild]_vars

(***************************************************************************)
(* The list parsers alone, each applied to an output made of a few pieces  *)
(* or to one of the outputs of the documentation.                          *)
(***************************************************************************)
ParsePieces ==
  { TxtFoo, TxtSeparator, TxtBullet, <<" ">>, <<"-">>, <<"\n">> }

\* '- foo', 'bar - extra description', 'status: ok'
ExampleSearchOutput ==
  TxtBullet \o TxtFoo \o <<"\n">> \o TxtBar \o TxtSeparator \o TxtExtra
    \o <<"\n">> \o TxtStatusOk

\* 'cli       - Basic CLI template'
ExampleTemplateOutput ==
  TxtCli \o <<" ", " ", " ", " ", " ", " ">> \o TxtSeparator \o TxtDesc

ParseInputs ==
  TextsOf(ParsePieces, MaxPieces) \cup {ExampleSearchOutput, ExampleTemplateOutput}

InitParse ==
  /\ thisOptions = Constructor("", NoOptions)
  /\ calls = [c \in CallIds |-> IdleCall]
  /\ parsing \in {[NotParsing EXCEPT !.input = t] : t \in ParseInputs}
  /\ cli = NoCli

\* a parser returns an array of strings
Parsed(by, items) ==
  /\ parsing.by = "none"
  /\ parsing' = [parsing EXCEPT !.by = by, !.kind = "strings", !.items = items]
  /\ UNCHANGED <<thisOptions, calls, cli>>

\* search of the js facade, from result.stdout on
ApplyJsParseSearch ==
  Parsed("jsSearch", JsParseSearch(parsing.input))

ApplyParseSearchResults ==
  Parsed("parseSearchResults", parseSearchResults(parsing.input))

\* templates of the js facade, from result.stdout on
ApplyJsParseTemplates ==
  Parsed("jsTemplates", JsParseTemplates(parsing.input))

ApplyParseTemplateList ==
  Parsed("parseTemplateList", parseTemplateList(parsing.input))

NextParse ==
  \/ ApplyJsParseSearch
  \/ ApplyParseSearchResults
  \/ ApplyJsParseTemplates
  \/ ApplyParseTemplateList

SpecParse ==
  InitParse /\ [][NextParse]_vars

(***************************************************************************)
(* Concurrent calls: two calls made on one instance, a build and a search, *)
(* each with a process of its own, whose events interleave in any order.   *)
(***************************************************************************)
\* the data events delivered so far to the calls of the set
RECURSIVE ChunksDelivered(_)
ChunksDelivered(cs) ==
  IF cs = {} THEN 0
  ELSE LET c == CHOOSE x \in cs : TRUE
       IN  Len(calls[c].outLog) + Len(calls[c].errLog)
             + ChunksDelivered(cs \ {c})

\* one instance, constructed where FORGEKIT_PATH is set
InitConcurrent ==
  /\ thisOptions = Constructor("/opt/forgekit", NoOptions)
  /\ calls = [c \in CallIds |-> IdleCall]
  /\ parsing = NotParsing
  /\ cli = NoCli

NextConcurrent ==
  \E c \in CallIds :
    \/ JsBuild(c, {NoOptions})
    \/ JsSearch(c, {NoOptions})
    \/ ChunksDelivered(CallIds) < MaxConcurrentChunks /\ JsStdoutData(c)
    \/ ChunksDelivered(CallIds) < MaxConcurrentChunks /\ JsStderrData(c)
    \/ JsOnError(c)
    \/ JsOnClose(c)

SpecConcurrent ==
  InitConcurrent /\ [][NextConcurrent]_vars

(***************************************************************************)
(* The command-line script (bin/forgekit.js): a process of its own, which  *)
(* forwards its arguments to the tool and leaves the tool's output on the  *)
(* inherited streams.  Lines written with console.log are plain strings;   *)
(* lines written with console.error are texts.                             *)
(***************************************************************************)
\* the arguments after the script's name
CliArgvs ==
  { <<>>, <<"">>, <<"help">>, <<"--help">>, <<"version">>, <<"--version">> }
  \cup
  { <<command>> \o rest :
      command \in {"new", "build", "package", "build-package", "run", "add",
                   "remove", "update", "search", "templates", "deploy"},
      rest \in {<<>>, <<"myapp">>, <<"--path", "./app">>} }

\* the code of a close event: a number, or null (written <<>>) when the tool
\* was ended by a signal
CloseCodes ==
  { <<n>> : n \in ExitCodes } \cup { <<>> }

\* const [, , command, ...args] = process.argv; undefined is written ""
CliCommand(argv) ==
  IF argv = <<>> THEN "" ELSE argv[1]

\* !command || command === 'help' || command === '--help'
CliIsHelp(command) ==
  command = "" \/ command = "help" \/ command = "--help"

\* command === 'version' || command === '--version'
CliIsVersion(command) ==
  command = "version" \/ command = "--version"

CliHelpLines ==
  << "ForgeKit CLI for Node.js",
     "Usage: forgekit <command> [options]",
     "",
     "Commands:",
     "  new <name> [options]        Create a new project",
     "  build [options]             Build the project",
     "  package [options]           Package the project",
     "  build-package [options]     Build and package",
     "  run [options]               Run the project",
     "  add <package> [options]     Add dependency",
     "  remove <package> [options]  Remove dependency",
     "  update [options]            Update dependencies",
     "  search <query>              Search packages",
     "  templates                   List templates",
     "",
     "Options:",
     "  --path, -p <path>          Specify project path",
     "  --template, -t <template>  Specify template type",
     "  --version, -v <version>    Specify version",
     "",
     "Examples:",
     "  forgekit new myapp",
     "  forgekit new myapp --template gui",
     "  forgekit build --path ./myapp",
     "  forgekit add serde --version \"1.0\"" >>

CliVersionLines ==
  << "ForgeKit CLI for Node.js v0.1.0",
     "Wrapper for ForgeKit Rust CLI" >>

\* process.exit(code): a code of null or undefined leaves the status 0
ProcessExit(code) ==
  IF code = <<>> THEN <<0>> ELSE code

\* the lines console.error writes in the error handler
CliErrorLines(err) ==
  IF err.code = "ENOENT"
  THEN << TxtCliErrNotFound, TxtCliErrInstall, TxtCliErrCargo, <<>>,
          TxtCliErrOverride >>
  ELSE << TxtCliErrRunning \o <<" ">> \o err.message >>

InitCli ==
  /\ thisOptions = Constructor("", NoOptions)
  /\ calls = [c \in CallIds |-> IdleCall]
  /\ parsing = NotParsing
  /\ cli \in { [NoCli EXCEPT !.phase = "start", !.argv = argv, !.env = env,
                             !.cwd = "/work"] :
                 argv \in CliArgvs, env \in {"", "/opt/forgekit"} }

\* the help text
CliHelp ==
  /\ cli.phase = "start"
  /\ CliIsHelp(CliCommand(cli.argv))
  /\ cli' = [cli EXCEPT !.out = CliHelpLines, !.exitStatus = ProcessExit(<<0>>),
                        !.phase = "exited"]
  /\ UNCHANGED <<thisOptions, calls, parsing>>

\* the version command
CliVersion ==
  /\ cli.phase = "start"
  /\ ~CliIsHelp(CliCommand(cli.argv))
  /\ CliIsVersion(CliCommand(cli.argv))
  /\ cli' = [cli EXCEPT !.out = CliVersionLines, !.exitStatus = ProcessExit(<<0>>),
                        !.phase = "exited"]
  /\ UNCHANGED <<thisOptions, calls, parsing>>

\* runForgeKit([command, ...args]), up to its return
runForgeKit ==
  /\ cli.phase = "start"
  /\ ~CliIsHelp(CliCommand(cli.argv))
  /\ ~CliIsVersion(CliCommand(cli.argv))
  /\ cli' = [cli EXCEPT
       !.spawned = Append(@, [file  |-> IF cli.env # "" THEN cli.env ELSE "forgekit",
                              args  |-> cli.argv,
                              cwd   |-> cli.cwd,
                              stdio |-> <<"inherit">>]),
       !.phase = "running"]
  /\ UNCHANGED <<thisOptions, calls, parsing>>

\* child.on('error') of runForgeKit
CliOnError ==
  /\ cli.phase = "running"
  /\ \E code \in LaunchCodes :
       LET err == MakeError(LaunchMessage(code), code)
       IN  cli' = [cli EXCEPT !.event = "error", !.errorCode = err.code,
                              !.err = @ \o CliErrorLines(err),
                              !.exitStatus = ProcessExit(<<1>>),
                              !.phase = "exited"]
  /\ UNCHANGED <<thisOptions, calls, parsing>>

\* the close handler made to end the script with status 0 whatever the code
CliOnClose_ExitZero ==
  /\ cli.phase = "running"
  /\ \E code \in CloseCodes :
       cli' = [cli EXCEPT !.event = "close", !.closeCode = code,
                          !.exitStatus = ProcessExit(<<0>>),
                          !.phase = "exited"]
  /\ UNCHANGED <<thisOptions, calls, parsing>>

\* child.on('close') of runForgeKit
CliOnClose ==
  /\ cli.phase = "running"
  /\ \E code \in CloseCodes :
       cli' = [cli EXCEPT !.event = "close", !.closeCode = code,
                          !.exitStatus = ProcessExit(code),
                          !.phase = "exited"]
  /\ UNCHANGED <<thisOptions, calls, parsing>>

NextCli ==
  \/ CliHelp
  \/ CliVersion
  \/ runForgeKit
  \/ CliOnError
  \/ CliOnClose

SpecCli ==
  InitCli /\ [][NextCli]_vars

(***************************************************************************)
(* Both surfaces.  A process is either the command-line script or a host   *)
(* of the library: bin/forgekit.js does not load the class, and the class  *)
(* does not run the script.                                                *)
(***************************************************************************)
InitSurfaces ==
  Init \/ InitCli

NextSurfaces ==
  \/ cli.phase = "none" /\ Next
  \/ NextCli

SpecSurfaces ==
  InitSurfaces /\ [][NextSurfaces]_vars

(***************************************************************************)
(* Properties of the command builder (checked under SpecBuild).            *)
(***************************************************************************)
Started ==
  {c \in CallIds : calls[c].started}

\* the argument vector the call's process was launched with
ArgsOf(c) ==
  calls[c].spawned[1].args

Tokens(args) ==
  {args[i] : i \in 1..Len(args)}

\* the place of a token in an argument vector, 0 when it is not there
PlaceOf(args, token) ==
  LET at == {i \in 1..Len(args) : args[i] = token}
  IN  IF at = {} THEN 0 ELSE CHOOSE i \in at : \A j \in at : i <= j

FlagOf(key) ==
  CASE key = "path"     -> "--path"
    [] key = "template" -> "--template"
    [] key = "version"  -> "--version"

\* C1: new(n, {template: t}) with non-empty n and t and no path option
\* launches the configured binary exactly with ["new", n, "--template", t],
\* in the configured working directory, with the three streams piped.
C1_NewSpawn ==
  \A c \in Started :
    ( /\ calls[c].impl = "js"
      /\ calls[c].op = "new"
      /\ Truthy(calls[c].options, "template")
      /\ "path" \notin DOMAIN calls[c].options )
    => /\ Len(calls[c].spawned) = 1
       /\ calls[c].spawned[1] =
            [file  |-> thisOptions.forgekitPath,
             args  |-> <<"new", calls[c].name, "--template",
                         calls[c].options["template"]>>,
             cwd   |-> thisOptions.cwd,
             stdio |-> <<"pipe", "pipe", "pipe">>]

C1_Witness ==
  \E c \in Started :
    /\ calls[c].impl = "js"
    /\ calls[c].op = "new"
    /\ DOMAIN calls[c].options = {"template"}
    /\ thisOptions.forgekitPath = "forgekit-test"
    /\ calls[c].spawned[1].file = "forgekit-test"
    /\ ArgsOf(c) = <<"new", "myapp", "--template", "cli">>

\* the flags of the keys, in the order given, each before the next when both
\* are in the vector
FlagsInOrder(args, keys) ==
  \A i, j \in 1..Len(keys) :
    ( /\ i < j
      /\ PlaceOf(args, FlagOf(keys[i])) # 0
      /\ PlaceOf(args, FlagOf(keys[j])) # 0 )
    => PlaceOf(args, FlagOf(keys[i])) < PlaceOf(args, FlagOf(keys[j]))

\* C4 as stated: in every argument vector the flags come in the order path,
\* template, version; for add with both options, --path p precedes
\* --version v.
C4_PathTemplateVersion ==
  \A c \in Started : FlagsInOrder(ArgsOf(c), <<"path", "template", "version">>)

\* C4 as amended: the order is fixed per operation: path then template for
\* new, version then path for add (with both options the vector is
\* ["add", name, "--version", v, "--path", p]), and a flag is directly
\* followed by its value.
C4_OrderPerOperation ==
  \A c \in Started :
    LET args == ArgsOf(c)
        o    == calls[c].options
    IN  /\ FlagsInOrder(args, <<"path", "template">>)
        /\ FlagsInOrder(args, <<"version", "path">>)
        /\ \A k \in OptionKeys :
             PlaceOf(args, FlagOf(k)) # 0
             => /\ PlaceOf(args, FlagOf(k)) < Len(args)
                /\ args[PlaceOf(args, FlagOf(k)) + 1] = o[k]
        /\ ( calls[c].op = "add" /\ Truthy(o, "version") /\ Truthy(o, "path") )
           => args = <<"add", calls[c].name, "--version", o["version"],
                       "--path", o["path"]>>

C4_Witness ==
  \E c \in Started :
    /\ calls[c].impl = "js"
    /\ ArgsOf(c) = <<"add", "myapp", "--version", "1.0", "--path", "./app">>

\* the keys an operation recognizes
RecognizedKeys(op) ==
  CASE op = "new"                    -> {"path", "template"}
    [] op = "add"                    -> {"path", "version"}
    [] op \in {"search", "templates"} -> {}
    [] OTHER                         -> {"path"}

\* C5: a key outside the operation's recognized set produces no token,
\* whatever its value; a recognized key that is absent produces neither its
\* flag nor a value.
C5_OnlyRecognizedPresent ==
  \A c \in Started :
    LET args == ArgsOf(c)
        o    == calls[c].options
        pos  == IF calls[c].op \in {"new", "add", "remove", "search"} THEN 2 ELSE 1
    IN  /\ \A k \in OptionKeys :
             ( k \notin RecognizedKeys(calls[c].op) \/ k \notin DOMAIN o )
             => /\ FlagOf(k) \notin Tokens(args)
                /\ k \in DOMAIN o => o[k] \notin Tokens(args)
        /\ Len(args) =
             pos + 2 * Cardinality({k \in RecognizedKeys(calls[c].op) : Truthy(o, k)})

C5_Witness ==
  \E c \in Started :
    /\ calls[c].impl = "js"
    /\ calls[c].op = "remove"
    /\ DOMAIN calls[c].options = {"template", "version"}
    /\ calls[c].options["version"] = "1.0"
    /\ calls[c].options["template"] = "cli"
    /\ ArgsOf(c) = <<"remove", "myapp">>

CanonicalToken(op) ==
  IF op = "buildPackage" THEN "build-package" ELSE op

\* C6: the vector starts with the operation's canonical token, and for new,
\* add, remove and search the positional argument comes next, before any
\* flag.
C6_CanonicalFirst ==
  \A c \in Started :
    LET args == ArgsOf(c)
    IN  /\ Len(args) >= 1
        /\ args[1] = CanonicalToken(calls[c].op)
        /\ args[1] \in {"new", "build", "package", "build-package", "run",
                        "add", "remove", "update", "search", "templates"}
        /\ calls[c].op \in {"new", "add", "remove", "search"}
           => /\ Len(args) >= 2
              /\ args[2] = calls[c].name
        /\ \A k \in OptionKeys :
             PlaceOf(args, FlagOf(k)) # 0
             => PlaceOf(args, FlagOf(k)) >
                  (IF calls[c].op \in {"new", "add", "remove", "search"} THEN 2 ELSE 1)

C6_Witness ==
  \E c \in Started :
    /\ calls[c].impl = "js"
    /\ calls[c].op = "buildPackage"
    /\ ArgsOf(c) = <<"build-package", "--path", "./app">>

(***************************************************************************)
(* Properties of a call followed to its end (checked under Spec).          *)
(***************************************************************************)
\* the words by which a caller recognizes ToolchainNotFound
TxtNotFoundMark ==
  << "F", "o", "r", "g", "e", "K", "i", "t", " ", "C", "L", "I",
     " ", "n", "o", "t", " ", "f", "o", "u", "n", "d" >>

\* the words by which a caller recognizes NonZeroExit
TxtFailedMark ==
  << "F", "o", "r", "g", "e", "K", "i", "t", " ", "c", "o", "m",
     "m", "a", "n", "d", " ", "f", "a", "i", "l", "e", "d" >>

EndsWith(s, t) ==
  /\ Len(t) <= Len(s)
  /\ SubSeq(s, Len(s) - Len(t) + 1, Len(s)) = t

\* the process could not be launched because the executable is missing
LaunchEnoent(c) ==
  calls[c].first = "error" /\ calls[c].errorCode = "ENOENT"

\* the process ran and ended with a status other than 0
ExitedNonZero(c) ==
  calls[c].first = "close" /\ calls[c].exitCode # 0

\* the process ran and ended with status 0
ExitedZero(c) ==
  calls[c].first = "close" /\ calls[c].exitCode = 0

\* C2: whatever the operation, a launch error whose cause is ENOENT makes
\* the call fail with the ToolchainNotFound error ('ForgeKit CLI not found
\* ...'), never with another error and never with a result.
C2_EnoentIsToolchainNotFound ==
  \A c \in Started :
    LaunchEnoent(c)
    => /\ calls[c].result.state = "rejected"
       /\ Includes(calls[c].result.error.message, TxtNotFoundMark)

\* C2 on the js facade alone, where it holds
C2_JsEnoentIsToolchainNotFound ==
  \A c \in Started :
    ( calls[c].impl = "js" /\ LaunchEnoent(c) )
    => /\ calls[c].result.state = "rejected"
       /\ calls[c].result.error.message = TxtCliNotFoundJs

\* C3: a process that ends with a non-zero status makes the call fail with
\* the NonZeroExit error, whose message carries the captured standard error
\* when that is not empty and the captured standard output otherwise.
C3_NonZeroExitCarriesOutput ==
  \A c \in Started :
    ExitedNonZero(c)
    => /\ calls[c].result.state = "rejected"
       /\ Includes(calls[c].result.error.message, TxtFailedMark)
       /\ EndsWith(calls[c].result.error.message,
                   OrElse(calls[c].stderr, calls[c].stdout))

\* C3 on the js facade alone, where it holds
C3_JsNonZeroExitCarriesOutput ==
  \A c \in Started :
    ( calls[c].impl = "js" /\ ExitedNonZero(c) )
    => /\ calls[c].result.state = "rejected"
       /\ calls[c].result.error.message =
            TxtFailedWithExitCode \o NumberToString(calls[c].exitCode)
              \o TxtColonSpace \o OrElse(calls[c].stderr, calls[c].stdout)

\* C7 as stated: a successful package or buildPackage returns the extracted
\* path, search and templates return lists, every other operation returns
\* the raw captured result.
C7_ReturnShapes ==
  \A c \in Started :
    calls[c].result.state = "fulfilled"
    => calls[c].result.value.kind =
         CASE calls[c].op \in {"package", "buildPackage"} -> "path"
           [] calls[c].op \in {"search", "templates"}     -> "list"
           [] OTHER                                        -> "raw"

\* C7 as amended: in the js facade search and templates return lists and
\* every other operation, package and buildPackage included, returns the raw
\* captured result {stdout, stderr, code}; in the ts facade search and
\* templates return lists, package and buildPackage the extracted path, and
\* every other operation no value.
C7_ReturnShapesPerFacade ==
  \A c \in Started :
    calls[c].result.state = "fulfilled"
    => LET v == calls[c].result.value
       IN  /\ ExitedZero(c)
           /\ calls[c].op \in {"search", "templates"} => v.kind = "list"
           /\ ( calls[c].impl = "js" /\ calls[c].op \notin {"search", "templates"} )
              => v = RawValue(calls[c].stdout, calls[c].stderr, 0)
           /\ ( calls[c].impl = "ts" /\ calls[c].op \in {"package", "buildPackage"} )
              => v.kind = "path"
           /\ ( calls[c].impl = "ts"
                /\ calls[c].op \notin {"search", "templates", "package", "buildPackage"} )
              => v = VoidValue

C7_Witness ==
  \E c \in Started :
    /\ calls[c].impl = "js"
    /\ calls[c].op = "package"
    /\ calls[c].result.state = "fulfilled"
    /\ calls[c].result.value.kind = "raw"
    /\ calls[c].result.value.stdout = TxtPackageCreatedAt \o TxtPathToken \o <<"\n">>

\* the marker starts at place i of text and a character that is not white
\* space follows it
MarkerWithTokenAt(text, i) ==
  LET n == Len(TxtPackageCreatedAt)
  IN  /\ i + n <= Len(text)
      /\ SubSeq(text, i, i + n - 1) = TxtPackageCreatedAt
      /\ text[i + n] \notin WhiteSpace

HasMarkerWithToken(text) ==
  \E i \in 1..Len(text) : MarkerWithTokenAt(text, i)

\* path is the token after the first marker of text that has one: it starts
\* right after the marker, holds no white space and ends at the next white
\* space or at the end of the text
IsTokenAfterFirstMarker(text, path) ==
  \E i \in 1..Len(text) :
    LET from == i + Len(TxtPackageCreatedAt)
        to   == from + Len(path) - 1
    IN  /\ MarkerWithTokenAt(text, i)
        /\ \A j \in 1..(i - 1) : ~MarkerWithTokenAt(text, j)
        /\ path # <<>>
        /\ to <= Len(text)
        /\ SubSeq(text, from, to) = path
        /\ \A k \in 1..Len(path) : path[k] \notin WhiteSpace
        /\ to = Len(text) \/ text[to + 1] \in WhiteSpace

\* C8 as stated: after an exit with status 0, package and buildPackage
\* return exactly the path token that follows the marker 'Package created
\* at ', and fail with ParseFailure when the output holds no such marker;
\* they never return an empty or undefined path.
C8_PathOrParseFailure ==
  \A c \in Started :
    ( calls[c].op \in {"package", "buildPackage"} /\ ExitedZero(c) )
    => IF HasMarkerWithToken(calls[c].stdout)
       THEN /\ calls[c].result.state = "fulfilled"
            /\ calls[c].result.value.kind = "path"
            /\ IsTokenAfterFirstMarker(calls[c].stdout, calls[c].result.value.path)
       ELSE /\ calls[c].result.state = "rejected"
            /\ calls[c].result.error.message = TxtCouldNotExtract

\* C8 as amended: that holds of package and buildPackage of the ts facade;
\* those of the js facade extract nothing and return the raw captured result
\* whether the marker is in the output or not.
C8_PathOrParseFailureTs ==
  \A c \in Started :
    ( calls[c].op \in {"package", "buildPackage"} /\ ExitedZero(c) )
    => IF calls[c].impl = "ts"
       THEN IF HasMarkerWithToken(calls[c].stdout)
            THEN /\ calls[c].result.state = "fulfilled"
                 /\ calls[c].result.value.kind = "path"
                 /\ IsTokenAfterFirstMarker(calls[c].stdout,
                                            calls[c].result.value.path)
            ELSE /\ calls[c].result.state = "rejected"
                 /\ calls[c].result.error.message = TxtCouldNotExtract
       ELSE calls[c].result =
              Fulfilled(RawValue(calls[c].stdout, calls[c].stderr, 0))

\* the ts facade returns the token of the second line, the first marker
\* having none
C8_Witness ==
  \E c \in Started :
    /\ calls[c].impl = "ts"
    /\ calls[c].op = "package"
    /\ calls[c].stdout = TxtPackageCreatedAt \o <<"\n">>
                           \o TxtPackageCreatedAt \o TxtPathToken \o <<"\n">>
    /\ calls[c].result = Fulfilled(PathValue(TxtPathToken))

\* the js facade returns the raw result of an output without the marker
C8_JsReturnsRaw ==
  \E c \in Started :
    /\ calls[c].impl = "js"
    /\ calls[c].op = "buildPackage"
    /\ ExitedZero(c)
    /\ ~HasMarkerWithToken(calls[c].stdout)
    /\ calls[c].result.value.kind = "raw"

\* C12 as stated: once the process has exited, execute completes with the
\* record of the captured standard output, the captured standard error and
\* the exit status, whether that status is 0 or not.
C12_ResultWhateverStatus ==
  \A c \in Started :
    ( calls[c].impl = "js" /\ calls[c].first = "close" )
    => calls[c].promise =
         Fulfilled(RawValue(calls[c].stdout, calls[c].stderr, calls[c].exitCode))

\* C12 as the code has it: once the process has exited, execute has
\* completed: with the record { stdout, stderr, code: 0 } when the status is
\* 0, with the NonZeroExit error, whose message holds the status, when it is
\* not; the code of a record is never anything but 0.
C12_ResultOnlyOnZero ==
  \A c \in Started :
    calls[c].impl = "js"
    => /\ calls[c].promise.state = "fulfilled" => calls[c].promise.value.code = 0
       /\ ExitedZero(c)
            => calls[c].promise =
                 Fulfilled(RawValue(calls[c].stdout, calls[c].stderr, 0))
       /\ ExitedNonZero(c)
            => /\ calls[c].promise.state = "rejected"
               /\ StartsWith(calls[c].promise.error.message,
                             TxtFailedWithExitCode
                               \o NumberToString(calls[c].exitCode) \o TxtColonSpace)

\* a process that wrote to both streams and exited with status 2
C12_Witness ==
  \E c \in Started :
    /\ calls[c].impl = "js"
    /\ ExitedNonZero(c)
    /\ calls[c].exitCode = 2
    /\ calls[c].stdout # <<>>
    /\ calls[c].stderr # <<>>
    /\ calls[c].promise.state = "rejected"

\* C16: a call launches exactly one process in all: none before it is
\* made, one when it is made, and no other after a launch failure, a
\* non-zero exit, a parse failure or a success.
C16_OneProcessPerCall ==
  \A c \in SoloCalls :
    Len(calls[c].spawned) = IF calls[c].started THEN 1 ELSE 0

\* a call of the js facade whose launch failed and whose process then
\* closed: it was not launched again
C16_Witness ==
  \E c \in Started :
    /\ calls[c].impl = "js"
    /\ calls[c].first = "error"
    /\ calls[c].closed
    /\ calls[c].result.state = "rejected"
    /\ Len(calls[c].spawned) = 1

\* a call of the ts facade that failed to find the package path
C16_AfterParseFailure ==
  \E c \in Started :
    /\ calls[c].impl = "ts"
    /\ calls[c].result.state = "rejected"
    /\ calls[c].result.error.message = TxtCouldNotExtract
    /\ Len(calls[c].spawned) = 1

\* C17: a call of the js facade settles once: its outcome is the one of
\* the first of the error event and the close event delivered to it, and the
\* event delivered after it, in either order, does not change it.
C17_FirstEventDecides ==
  \A c \in Started :
    calls[c].impl = "js"
    => calls[c].promise =
         CASE calls[c].first = "none"  -> Pending
           [] calls[c].first = "error" ->
                JsErrorOutcome(MakeError(LaunchMessage(calls[c].errorCode),
                                         calls[c].errorCode))
           [] calls[c].first = "close" ->
                JsCloseOutcome(calls[c].stdout, calls[c].stderr, calls[c].exitCode)

\* an error event, then a close event with code 0: the call stays failed
C17_Witness ==
  \E c \in Started :
    /\ calls[c].impl = "js"
    /\ calls[c].errored /\ calls[c].closed
    /\ calls[c].first = "error"
    /\ calls[c].exitCode = 0
    /\ calls[c].promise.state = "rejected"

\* a close event with code 0, then an error event: the call stays succeeded
C17_CloseThenError ==
  \E c \in Started :
    /\ calls[c].impl = "js"
    /\ calls[c].errored /\ calls[c].closed
    /\ calls[c].first = "close"
    /\ calls[c].exitCode = 0
    /\ calls[c].promise.state = "fulfilled"

\* the chunks of a stream, one after the other
RECURSIVE ConcatChunks(_)
ConcatChunks(chunks) ==
  IF chunks = <<>> THEN <<>>
  ELSE Head(chunks) \o ConcatChunks(Tail(chunks))

\* C18: in the record of a successful call of the js facade, stdout is the
\* chunks of the standard output in the order of their arrival, stderr the
\* chunks of the standard error in the order of theirs, nothing of one
\* stream in the text of the other, no chunk missing or repeated, and the
\* code is 0.
C18_CapturedInOrder ==
  \A c \in Started :
    ( calls[c].impl = "js" /\ calls[c].promise.state = "fulfilled" )
    => /\ calls[c].promise.value.stdout = ConcatChunks(calls[c].outLog)
       /\ calls[c].promise.value.stderr = ConcatChunks(calls[c].errLog)
       /\ calls[c].promise.value.code = 0

\* a successful call that received two different chunks of standard output
\* and a chunk of standard error
C18_Witness ==
  \E c \in Started :
    /\ calls[c].impl = "js"
    /\ calls[c].promise.state = "fulfilled"
    /\ Len(calls[c].outLog) = 2
    /\ calls[c].outLog[1] # calls[c].outLog[2]
    /\ calls[c].errLog # <<>>

(***************************************************************************)
(* Properties of the list parsers (checked under SpecParse).               *)
(***************************************************************************)
SearchParsers ==
  {"jsSearch", "parseSearchResults"}

TemplateParsers ==
  {"jsTemplates", "parseTemplateList"}

\* a line qualifies as a search result
QualifiesAsResult(line) ==
  StartsWith(Trim(line), TxtBullet) \/ Includes(line, TxtSeparator)

\* the trimmed line, without its leading bullet marker when it has one
WithoutLeadingBullet(line) ==
  LET t == Trim(line)
  IN  IF StartsWith(t, TxtBullet) THEN SubSeq(t, Len(TxtBullet) + 1, Len(t)) ELSE t

ResultsAsClaimed(output) ==
  LET kept == SelectSeq(SplitLines(output), QualifiesAsResult)
  IN  [i \in 1..Len(kept) |-> WithoutLeadingBullet(kept[i])]

\* C9: search-result extraction keeps, in source order, the qualifying
\* lines, each trimmed and with only a leading bullet marker removed (a
\* separator inside the line is kept); '- foo', 'bar - extra description',
\* 'status: ok' yield exactly ['foo', 'bar - extra description'].
C9_OnlyLeadingBulletRemoved ==
  parsing.by \in SearchParsers
  => /\ parsing.items = ResultsAsClaimed(parsing.input)
     /\ parsing.input = ExampleSearchOutput
        => parsing.items = <<TxtFoo, TxtBar \o TxtSeparator \o TxtExtra>>

\* what the code returns for the three lines of C9
C9_ExampleAsParsed ==
  ( parsing.by \in SearchParsers /\ parsing.input = ExampleSearchOutput )
  => parsing.items = <<TxtFoo, TxtBar \o <<" ">> \o TxtExtra>>

\* the ways to read line as white space (up to place a), an identifier (up
\* to place e), white space, a dash (at place d), white space and a
\* description (from place f) that runs to the end of the line and starts
\* after all the white space that leaves it a character: the pairs
\* <<identifier, description>>
TemplateSplits(line) ==
  LET n == Len(line)
      Blank(from, to) == \A i \in from..to : line[i] \in WhiteSpace
  IN  UNION { UNION { UNION {
        { <<SubSeq(line, a + 1, e), SubSeq(line, f, n)>> :
            f \in { x \in (d + 2)..n :
                      /\ Blank(d + 1, x - 1)
                      /\ \A i \in x..n : line[i] \notin LineTerminators
                      /\ line[x] \notin WhiteSpace \/ x = n } } :
            d \in { x \in (e + 2)..n : line[x] = "-" /\ Blank(e + 1, x - 1) } } :
            e \in { x \in (a + 1)..n : \A i \in (a + 1)..x : line[i] \in WordChars } } :
            a \in { x \in 0..n : Blank(1, x) } }

\* per line that reads so, in source order, identifier ' - ' description
RECURSIVE JoinedTemplates(_)
JoinedTemplates(lines) ==
  IF lines = <<>> THEN <<>>
  ELSE LET splits == TemplateSplits(Head(lines))
       IN  IF splits = {} THEN JoinedTemplates(Tail(lines))
           ELSE LET p == CHOOSE q \in splits : TRUE
                IN  <<p[1] \o <<" ", "-", " ">> \o p[2]>>
                      \o JoinedTemplates(Tail(lines))

\* C10 as stated: every entry of the result is a {name, description} pair.
C10_Descriptors ==
  ( parsing.by \in TemplateParsers /\ parsing.items # <<>> )
  => parsing.kind = "descriptors"

\* C10 as amended: template extraction yields, for each output line of the
\* form <identifier> <separator> <description> and in source order, the
\* string '<identifier> - <description>' (for 'cli       - Basic CLI
\* template' the string 'cli - Basic CLI template'); lines not of that form
\* contribute nothing and never cause a failure.
C10_JoinedStrings ==
  parsing.by \in TemplateParsers
  => /\ parsing.kind = "strings"
     /\ parsing.items = JoinedTemplates(SplitLines(parsing.input))

C10_Witness ==
  /\ parsing.by \in TemplateParsers
  /\ parsing.input = ExampleTemplateOutput
  /\ parsing.items = <<TxtCli \o <<" ", "-", " ">> \o TxtDesc>>

C11_SignalEndsWithZero ==
  ( cli.phase = "exited" /\ cli.event = "close" /\ cli.closeCode = <<>> )
  => cli.exitStatus = <<0>>

(***************************************************************************)
(* Properties of launch failures on both surfaces (checked under           *)
(* SpecSurfaces).                                                          *)
(***************************************************************************)
\* the installation step a remediation message names
TxtInstallStep ==
  << "c", "a", "r", "g", "o", " ", "i", "n", "s", "t", "a", "l",
     "l", " ", "f", "o", "r", "g", "e", "k", "i", "t" >>

\* the override variable a remediation message names
TxtOverrideVariable ==
  << "F", "O", "R", "G", "E", "K", "I", "T", "_", "P", "A", "T",
     "H" >>

\* a call that failed with the error a caller recognizes as ToolchainNotFound
FailedAsNotFound(c) ==
  /\ calls[c].result.state = "rejected"
  /\ Includes(calls[c].result.error.message, TxtNotFoundMark)

\* the script ended in the branch of its error handler for a missing tool
CliFailedAsNotFound ==
  cli.phase = "exited" /\ cli.event = "error" /\ cli.errorCode = "ENOENT"

\* some line of the lines holds the text
SomeLineIncludes(lines, text) ==
  \E i \in 1..Len(lines) : Includes(lines[i], text)

\* C13 as stated: every ToolchainNotFound failure, of a call as well as of
\* the script, carries a message that names the installation step and the
\* override variable.
C13_NamesInstallAndOverride ==
  /\ \A c \in Started :
       FailedAsNotFound(c)
       => /\ Includes(calls[c].result.error.message, TxtInstallStep)
          /\ Includes(calls[c].result.error.message, TxtOverrideVariable)
  /\ CliFailedAsNotFound
       => /\ SomeLineIncludes(cli.err, TxtInstallStep)
          /\ SomeLineIncludes(cli.err, TxtOverrideVariable)

\* C13 as the code has it: the message of a call names the installation
\* step only and is one fixed text per facade (which the ts facade's search
\* and templates prefix); the lines the script writes name the installation
\* step and the override variable.
C13_MessagePerSurface ==
  /\ \A c \in Started :
       FailedAsNotFound(c)
       => /\ calls[c].impl = "js" => calls[c].result.error.message = TxtCliNotFoundJs
          /\ calls[c].impl = "ts"
               => EndsWith(calls[c].result.error.message, TxtCliNotFoundTs)
          /\ Includes(calls[c].result.error.message, TxtInstallStep)
          /\ ~Includes(calls[c].result.error.message, TxtOverrideVariable)
  /\ CliFailedAsNotFound
       => /\ cli.err = << TxtCliErrNotFound, TxtCliErrInstall, TxtCliErrCargo,
                          <<>>, TxtCliErrOverride >>
          /\ SomeLineIncludes(cli.err, TxtInstallStep)
          /\ SomeLineIncludes(cli.err, TxtOverrideVariable)

\* a call of the js facade that failed because the tool is missing
C13_Witness ==
  \E c \in Started :
    /\ calls[c].impl = "js"
    /\ LaunchEnoent(c)
    /\ FailedAsNotFound(c)

\* the process could not be launched, and not because the executable is
\* missing
LaunchOther(c) ==
  calls[c].first = "error" /\ calls[c].errorCode # "ENOENT"

\* the script ended in the other branch of its error handler
CliFailedToLaunchOther ==
  cli.phase = "exited" /\ cli.event = "error" /\ cli.errorCode # "ENOENT"

\* C14: a launch failure whose cause is not a missing executable is
\* surfaced as a failure that carries neither the 'not found' message of
\* ToolchainNotFound nor the 'command failed' message of NonZeroExit, and
\* never as a result; the script ends with a status other than 0.
C14_SpawnFailureDistinct ==
  /\ \A c \in Started :
       LaunchOther(c)
       => /\ calls[c].result.state = "rejected"
          /\ ~Includes(calls[c].result.error.message, TxtNotFoundMark)
          /\ ~Includes(calls[c].result.error.message, TxtFailedMark)
  /\ CliFailedToLaunchOther
       => /\ cli.exitStatus # <<0>>
          /\ cli.err # <<>>
          /\ ~SomeLineIncludes(cli.err, TxtNotFoundMark)
          /\ ~SomeLineIncludes(cli.err, TxtFailedMark)

\* C14 on the js facade and the script, where it holds: the call fails with
\* the launch error itself, the script writes the launch error's message
\* after 'Error running forgekit:' and ends with status 1
C14_JsAndCliSpawnFailureDistinct ==
  /\ \A c \in Started :
       ( calls[c].impl = "js" /\ LaunchOther(c) )
       => calls[c].result =
            Rejected(MakeError(LaunchMessage(calls[c].errorCode), calls[c].errorCode))
  /\ CliFailedToLaunchOther
       => /\ cli.exitStatus = <<1>>
          /\ cli.err = << TxtCliErrRunning \o <<" ">> \o LaunchMessage(cli.errorCode) >>

\* the ts facade whose launch failed for another cause than a missing
\* executable, and which reports the failure as a failed command
C14_TsReportsCommandFailed ==
  \E c \in Started :
    /\ calls[c].impl = "ts"
    /\ LaunchOther(c)
    /\ calls[c].result.state = "rejected"
    /\ calls[c].result.error.message = TxtCommandFailedTs

(***************************************************************************)
(* Properties of concurrent calls (checked under SpecConcurrent).          *)
(***************************************************************************)
\* what the events of the call's own process make of its promise: nothing
\* before the first of error and close, the outcome of that event after it
OwnOutcome(c) ==
  CASE calls[c].first = "none"  -> Pending
    [] calls[c].first = "error" ->
         JsErrorOutcome(MakeError(LaunchMessage(calls[c].errorCode),
                                  calls[c].errorCode))
    [] calls[c].first = "close" ->
         JsCloseOutcome(ConcatChunks(calls[c].outLog),
                        ConcatChunks(calls[c].errLog), calls[c].exitCode)

\* every call holds what its own process delivered, and nothing else
OwnEventsOnly ==
  \A c \in CallIds :
    IF calls[c].started
    THEN /\ calls[c].stdout = ConcatChunks(calls[c].outLog)
         /\ calls[c].stderr = ConcatChunks(calls[c].errLog)
         /\ calls[c].promise = OwnOutcome(c)
         /\ calls[c].result = JsThen(calls[c].op, calls[c].promise)
         /\ Len(calls[c].spawned) = 1
         /\ calls[c].spawned[1].file = thisOptions.forgekitPath
         /\ calls[c].spawned[1].cwd = thisOptions.cwd
    ELSE calls[c] = IdleCall

\* a step touches one call at most, and never the configuration
OneCallPerStep ==
  /\ thisOptions' = thisOptions
  /\ \A c, d \in CallIds :
       c # d => ( calls'[c] = calls[c] \/ calls'[d] = calls[d] )

\* C15: whatever the interleaving of the events of two concurrent calls,
\* the captured standard output, the captured standard error and the
\* outcome of each call are those of the events of its own process; no
\* step of one call changes the buffers or the outcome of the other, and no
\* step changes the configuration of the instance.
C15_CallsIsolated ==
  []OwnEventsOnly /\ [][OneCallPerStep]_vars

\* two calls in flight at once, each having received a different chunk;
\* one succeeded and the other failed
C15_Witness ==
  /\ calls["c1"].started /\ calls["c2"].started
  /\ calls["c1"].outLog # <<>> /\ calls["c2"].outLog # <<>>
  /\ calls["c1"].stdout # calls["c2"].stdout
  /\ calls["c1"].promise.state = "fulfilled"
  /\ calls["c2"].promise.state = "rejected"

====
